---- MODULE Spec2Model ----
(***************************************************************************)
(* Model of main.py of RBF_Download_Helper: the continuous downloader      *)
(* (normal_mode), the one-shot downloader (offline_mode) and main().       *)
(*                                                                         *)
(* Timestamps are whole seconds.  The wall clock advances in steps of      *)
(* ClockStep seconds while the process blocks (network request, file       *)
(* write, sleep) or is not running.  The process can be terminated at any  *)
(* point and started again; only the cursor file survives a restart.       *)
(***************************************************************************)
EXTENDS Integers, Sequences, FiniteSets, TLC

\* ---------------------------------------------------------------- bounds
ClockStep == 30
MaxTicks == 4
MaxRuns == 2
MaxTrace == 7
BootTime == 600
MaxCalls == 2

\* `* 60` of main.py: minutes to seconds
SecPerMin == 60

\* configurations explored: config["wait"], config["retry"] in minutes
WaitChoices == {1, 2}
RetryChoices == {1}

\* cursor-file contents found by the first run: no file, an unparseable
\* line, or a timestamp left by an earlier run (the last one lies in the
\* future of the clock)
Absent == [kind |-> "absent", line |-> <<>>]
Malformed == [kind |-> "malformed", line |-> <<>>]
\* the file between open(save_file_path, "w") and close(): truncated
Empty == [kind |-> "empty", line |-> <<>>]
\* the file after print(timestring, file=save_file) and close()
Line(text) == [kind |-> "line", line |-> text]
InitCursors == {BootTime - 150, BootTime - 60, BootTime, BootTime + ClockStep}

VARIABLES
    pc,           \* position of the process
    offline,      \* args.offline of the current run
    now,          \* the wall clock, in seconds
    config,       \* the loaded configuration
    start_time,   \* normal_mode: start_time
    end_time,     \* normal_mode: end_time
    wakeAt,       \* clock value at which the pending time.sleep may return
    cursorFile,   \* content of config["save_file"]
    exitStatus,   \* exit status of the last terminated run, -1 if none
    outFiles,     \* the files of config["output_dir"]: name and content
    cursorOps,    \* number of times the current run opened the cursor file
    \* ---- history, not read by the program
    trace,        \* events of the current run
    runs,         \* number of runs started
    startClock,   \* clock value read at the start of the current run
    fresh,        \* the current run took the fresh-start path
    initStart,    \* start_time right after startup of the current run
    initCursor,   \* cursor file content at the start of the current run
    reqHist,      \* start of every window requested by normal_mode, all runs
    cursorHist,   \* every timestamp the cursor file has held, all runs
    exitSeen,     \* offline mode: exit statuses seen per download outcome
    dlCalls       \* the last calls of download_waveform made on their own

vars == <<pc, offline, now, config, start_time, end_time, wakeAt, cursorFile,
          exitStatus, cursorOps, trace, runs, startClock, fresh, initStart, initCursor,
          reqHist, cursorHist, exitSeen, outFiles, dlCalls>>

fetchVars == <<outFiles, dlCalls>>

prog == <<pc, offline, start_time, end_time, wakeAt, exitStatus, cursorOps>>
hist == <<trace, runs, startClock, fresh, initStart, initCursor, reqHist,
          cursorHist, exitSeen>>

Ev(e, a, b) == [ev |-> e, a |-> a, b |-> b]

\* ------------------------------------------------------- pure functions

\* float(minutes) * 60
Secs(minutes) == minutes * SecPerMin

\* mutant: the seconds are dropped from the line
IsoformatMinutes(t) == <<t \div 3600, (t % 3600) \div 60, 0>>

\* UTCDateTime.isoformat(): the timestamp broken into hour, minute, second
Isoformat(t) == <<t \div 3600, (t % 3600) \div 60, t % 60>>

\* UTCDateTime(line) on a line that isoformat() wrote
FromIso(line) == line[1] * 3600 + line[2] * 60 + line[3]

\* open(save_file_path, "r"); readline(); UTCDateTime(line) raises nothing
Parseable(file) == file.kind = "line"

\* mutant: the duration is not converted to seconds
FreshStartMinutes(t, wait) == t - wait

\* mutant: a fresh start reaches two windows back
FreshStartTwo(t, wait) == t - 2 * Secs(wait)

\* line 76: start_time = end_time - float(duration) * 60
FreshStart(t, wait) == t - Secs(wait)

\* lines 65-76: start_time as normal_mode sets it up at clock value t
ResumeStart(file, t, wait) ==
    IF Parseable(file) THEN FromIso(file.line) ELSE FreshStart(t, wait)

\* mutant: a window is due only when more than the duration has elapsed
DueStrict(s, e, wait) == (e - s) > Secs(wait)

\* mutant: the elapsed seconds are compared with the duration in minutes
DueMinutes(s, e, wait) == (e - s) >= wait

\* line 79: (end_time - start_time) >= float(duration) * 60
Due(s, e, wait) == (e - s) >= Secs(wait)

\* mutant: the duration is added in minutes
WindowEndMinutes(s, wait) == s + wait

\* line 81: end_time = start_time + float(duration) * 60
WindowEnd(s, wait) == s + Secs(wait)

\* mutant: the next window starts one second after the committed one ends
NextStartSkipping(s, e) == e + 1

\* line 94: start_time = end_time
NextStart(s, e) == e

\* mutant: the failure branch advances to the next window
RetryStartAdvancing(s, e) == e

\* lines 98-101: the failure branch assigns nothing to start_time
RetryStart(s, e) == s

\* mutant: the retry delay is not converted to seconds
RetrySleepMinutes(retry) == retry

\* line 100: time.sleep(float(retry_delay) * 60)
RetrySleep(retry) == Secs(retry)

\* line 104: duration_sleep = end_time - start_time
DurationSleep(s, e) == e - s

\* lines 79-81 and 103-107: what one evaluation of the loop condition does,
\* as an event: the window requested, or the duration handed to time.sleep
\* (time.sleep raises ValueError on a negative one)
Decide(s, e, wait) ==
    IF Due(s, e, wait)
      THEN Ev("request", s, WindowEnd(s, wait))
      ELSE IF DurationSleep(s, e) < 0
             THEN Ev("sleep_negative", DurationSleep(s, e), 0)
             ELSE Ev("sleep_due", DurationSleep(s, e), 0)

\* ---- download_waveform

\* config.get("optional_id") of a configuration without the key
NoId == ""

\* the statement of download_waveform that raises, "ok" if none does:
\* get_waveforms (line 25), the filename (lines 29-40), st.write (line 44)
\* before it has touched the file or after it has written a part of it
Outcomes == {"ok", "net", "name", "write_clean", "write_partial"}

\* mutant: only the errors of the network request are caught
CaughtNetworkOnly(stage) == stage = "net"

\* line 47: except Exception catches what any statement of the try raises
Caught(stage) == TRUE

\* start_time.strftime('%Y%m%d_%H%M%S')
Strftime(t) == <<t \div 3600, (t % 3600) \div 60, t % 60>>

\* mutant: the name tells the end of the window as well
FilenameWithEnd(optional_id, station, s, e) ==
    <<"RBF", IF optional_id = NoId THEN station ELSE optional_id,
      Strftime(s), Strftime(e)>>

\* lines 29-38: f"RBF_{station or optional_id}_{strftime}.msd", in a
\* function that also has end_time at hand
Filename(optional_id, station, s, e) ==
    <<"RBF", IF optional_id = NoId THEN station ELSE optional_id, Strftime(s)>>

\* what st.write leaves at file_path: the whole block of the window
Complete(s, e) == <<s, e>>
\* or a part of it
Partial == <<>>

\* the directory after a write of data to name
WriteFile(files, name, data) ==
    {f \in files : f.name # name} \cup {[name |-> name, data |-> data]}

\* the content at name, <<"none">> if there is no such file
ReadFile(files, name) ==
    IF \E f \in files : f.name = name
      THEN (CHOOSE f \in files : f.name = name).data
      ELSE <<"none">>

\* lines 23-49: one call of download_waveform whose statements end as
\* outcome says: what it returns ("raised" if the error escapes), the name
\* it built and the directory it leaves
DownloadWaveform(s, e, optional_id, station, files, outcome) ==
    LET name == Filename(optional_id, station, s, e) IN
    [result |-> IF outcome = "ok" THEN "True"
                ELSE IF Caught(outcome) THEN "False" ELSE "raised",
     name   |-> IF outcome \in {"net", "name"} THEN <<>> ELSE name,
     files  |-> IF outcome = "ok" THEN WriteFile(files, name, Complete(s, e))
                ELSE IF outcome = "write_partial"
                       THEN WriteFile(files, name, Partial)
                       ELSE files]

\* lines 131-134, 148-151: main() returns normally after offline_mode,
\* whatever download_waveform returned
OfflineExitStatus(success) == 0

Stopped == {"boot", "exited", "crashed"}
Blocking == {"fetch", "off_fetch", "sleep_due", "sleep_retry"}

\* ------------------------------------------------------------------ Init
Init ==
    /\ pc = "boot"
    /\ offline = FALSE
    /\ now = BootTime
    /\ config \in [wait : WaitChoices, retry : RetryChoices,
                    from_time : {Isoformat(BootTime - 120)},
                    to_time : {Isoformat(BootTime - 30)},
                    station : {"STA"}, optional_id : {NoId}]
    /\ start_time = 0
    /\ end_time = 0
    /\ wakeAt = 0
    /\ cursorFile \in {Absent, Malformed} \cup {Line(Isoformat(c)) : c \in InitCursors}
    /\ exitStatus = -1
    /\ cursorOps = 0
    /\ trace = <<>>
    /\ runs = 0
    /\ startClock = BootTime
    /\ fresh = FALSE
    /\ initStart = 0
    /\ initCursor = cursorFile
    /\ reqHist = <<>>
    /\ cursorHist = IF Parseable(cursorFile) THEN <<FromIso(cursorFile.line)>> ELSE <<>>
    /\ exitSeen = [b \in BOOLEAN |-> {}]
    /\ outFiles = {}
    /\ dlCalls = <<>>

\* --------------------------------------------------------------- actions

\* the wall clock advances while the process waits or is not running
Tick ==
    /\ UNCHANGED fetchVars
    /\ pc \in Blocking \cup Stopped
    /\ now < BootTime + MaxTicks * ClockStep
    /\ now' = now + ClockStep
    /\ UNCHANGED <<prog, config, cursorFile, hist>>

\* main() without --offline; normal_mode lines 56-76
NormalStart ==
    /\ UNCHANGED fetchVars
    /\ pc \in Stopped
    /\ runs < MaxRuns
    /\ offline' = FALSE
    /\ start_time' = ResumeStart(cursorFile, now, config.wait)
    /\ end_time' = now
    /\ fresh' = ~Parseable(cursorFile)
    /\ pc' = "loop"
    /\ cursorOps' = 1
    /\ trace' = <<>>
    /\ runs' = runs + 1
    /\ startClock' = now
    /\ initStart' = start_time'
    /\ initCursor' = cursorFile
    /\ UNCHANGED <<now, config, wakeAt, cursorFile, exitStatus, reqHist,
                   cursorHist, exitSeen>>

\* normal_mode lines 79-81 and 103-107: one evaluation of the loop condition
LoopHead ==
    /\ UNCHANGED fetchVars
    /\ pc = "loop"
    /\ Len(trace) < MaxTrace
    /\ LET d == Decide(start_time, end_time, config.wait) IN
         /\ trace' = Append(trace, d)
         /\ IF d.ev = "request"
              THEN /\ end_time' = d.b
                   /\ pc' = "fetch"
                   /\ reqHist' = Append(reqHist, start_time)
                   /\ UNCHANGED <<wakeAt, exitStatus>>
              ELSE IF d.ev = "sleep_negative"
                     THEN \* ValueError, which nothing catches
                          /\ pc' = "crashed"
                          /\ exitStatus' = 1
                          /\ UNCHANGED <<end_time, wakeAt, reqHist>>
                     ELSE /\ pc' = "sleep_due"
                          /\ wakeAt' = now + d.a
                          /\ UNCHANGED <<end_time, exitStatus, reqHist>>
    /\ UNCHANGED <<offline, now, config, start_time, cursorFile, cursorOps, runs,
                   startClock, fresh, initStart, initCursor, cursorHist, exitSeen>>

\* normal_mode lines 82-89 and 98-100: download_waveform returns
DownloadReturn ==
    /\ pc = "fetch"
    /\ \E outcome \in Outcomes :
         LET r == DownloadWaveform(start_time, end_time, config.optional_id,
                                   config.station, outFiles, outcome)
         IN  /\ outFiles' = r.files
             /\ IF r.result = "True"
                  THEN /\ pc' = "save_open"
                       /\ trace' = Append(trace, Ev("ok", start_time, end_time))
                       /\ UNCHANGED <<start_time, wakeAt, exitStatus>>
                  ELSE IF r.result = "False"
                         THEN /\ pc' = "sleep_retry"
                              /\ start_time' = RetryStart(start_time, end_time)
                              /\ wakeAt' = now + RetrySleep(config.retry)
                              /\ trace' = trace \o
                                   <<Ev("fail", start_time, end_time),
                                     Ev("sleep_retry", RetrySleep(config.retry), 0)>>
                              /\ UNCHANGED exitStatus
                         ELSE \* the error leaves normal_mode and main
                              /\ pc' = "crashed"
                              /\ exitStatus' = 1
                              /\ trace' = Append(trace,
                                                 Ev("raised", start_time, end_time))
                              /\ UNCHANGED <<start_time, wakeAt>>
    /\ UNCHANGED <<offline, now, config, end_time, cursorFile, cursorOps, runs,
                   startClock, fresh, initStart, initCursor, reqHist, cursorHist,
                   exitSeen, dlCalls>>

\* normal_mode line 90: open(save_file_path, "w") truncates the file, or
\* raises, and nothing catches the error
SaveOpen ==
    /\ UNCHANGED fetchVars
    /\ pc = "save_open"
    /\ cursorOps' = cursorOps + 1
    /\ \E opened \in BOOLEAN :
         IF opened
           THEN /\ cursorFile' = Empty
                /\ pc' = "save_write"
                /\ UNCHANGED <<exitStatus, trace>>
           ELSE /\ pc' = "crashed"
                /\ exitStatus' = 1
                /\ trace' = Append(trace, Ev("save_failed", start_time, end_time))
                /\ UNCHANGED cursorFile
    /\ UNCHANGED <<offline, now, config, start_time, end_time, wakeAt, runs,
                   startClock, fresh, initStart, initCursor, reqHist, cursorHist,
                   exitSeen>>

\* mutant: the clock value is persisted instead of the end of the window
SaveWriteClock ==
    /\ UNCHANGED fetchVars
    /\ pc = "save_write"
    /\ \E written \in BOOLEAN :
         IF written
           THEN /\ cursorFile' = Line(Isoformat(now))
                /\ start_time' = NextStart(start_time, end_time)
                /\ end_time' = now
                /\ pc' = "loop"
                /\ trace' = Append(trace, Ev("commit", start_time, end_time))
                /\ cursorHist' = Append(cursorHist, FromIso(cursorFile'.line))
                /\ UNCHANGED exitStatus
           ELSE /\ pc' = "crashed"
                /\ exitStatus' = 1
                /\ trace' = Append(trace, Ev("save_failed", start_time, end_time))
                /\ UNCHANGED <<cursorFile, start_time, end_time, cursorHist>>
    /\ UNCHANGED <<offline, now, config, wakeAt, cursorOps, runs, startClock,
                   fresh, initStart, initCursor, reqHist, exitSeen>>

\* normal_mode lines 91-96: the line is written and the file closed, then the
\* window advances; a failing write leaves the truncated file behind
SaveWrite ==
    /\ UNCHANGED fetchVars
    /\ pc = "save_write"
    /\ \E written \in BOOLEAN :
         IF written
           THEN /\ cursorFile' = Line(Isoformat(end_time))
                /\ start_time' = NextStart(start_time, end_time)
                /\ end_time' = now
                /\ pc' = "loop"
                /\ trace' = Append(trace, Ev("commit", start_time, end_time))
                /\ cursorHist' = Append(cursorHist, FromIso(cursorFile'.line))
                /\ UNCHANGED exitStatus
           ELSE /\ pc' = "crashed"
                /\ exitStatus' = 1
                /\ trace' = Append(trace, Ev("save_failed", start_time, end_time))
                /\ UNCHANGED <<cursorFile, start_time, end_time, cursorHist>>
    /\ UNCHANGED <<offline, now, config, wakeAt, cursorOps, runs, startClock,
                   fresh, initStart, initCursor, reqHist, exitSeen>>

\* normal_mode lines 100-101: time.sleep(retry) returns, continue
WakeRetry ==
    /\ UNCHANGED fetchVars
    /\ pc = "sleep_retry"
    /\ now >= wakeAt
    /\ pc' = "loop"
    /\ UNCHANGED <<offline, now, config, start_time, end_time, wakeAt, cursorFile,
                   exitStatus, cursorOps, hist>>

\* normal_mode lines 107-108: time.sleep(duration_sleep) returns
WakeDue ==
    /\ UNCHANGED fetchVars
    /\ pc = "sleep_due"
    /\ now >= wakeAt
    /\ end_time' = now
    /\ pc' = "loop"
    /\ UNCHANGED <<offline, now, config, start_time, wakeAt, cursorFile,
                   exitStatus, cursorOps, hist>>

\* main() with --offline; offline_mode lines 115-130
OfflineStart ==
    /\ UNCHANGED fetchVars
    /\ pc \in Stopped
    /\ runs < MaxRuns
    /\ offline' = TRUE
    /\ pc' = "off_fetch"
    /\ cursorOps' = 0
    /\ trace' = <<Ev("request", FromIso(config.from_time), FromIso(config.to_time))>>
    /\ runs' = runs + 1
    /\ startClock' = now
    /\ fresh' = FALSE
    /\ initStart' = 0
    /\ initCursor' = cursorFile
    /\ start_time' = 0
    /\ end_time' = 0
    /\ UNCHANGED <<now, config, wakeAt, cursorFile, exitStatus, reqHist,
                   cursorHist, exitSeen>>

\* mutant: a failed offline download is requested again
OfflineReturnRetrying ==
    /\ pc = "off_fetch"
    /\ \E outcome \in Outcomes :
         LET r == DownloadWaveform(FromIso(config.from_time),
                                   FromIso(config.to_time), config.optional_id,
                                   config.station, outFiles, outcome)
             success == r.result = "True"
         IN
         /\ outFiles' = r.files
         /\ trace' = Append(trace, Ev(IF success THEN "ok" ELSE "fail",
                                      FromIso(config.from_time),
                                      FromIso(config.to_time)))
         /\ IF success \/ Len(trace) >= MaxTrace
              THEN /\ pc' = "exited"
                   /\ exitStatus' = 0
                   /\ exitSeen' = [exitSeen EXCEPT ![success] = @ \cup {0}]
              ELSE UNCHANGED <<pc, exitStatus, exitSeen>>
    /\ UNCHANGED <<offline, now, config, start_time, end_time, wakeAt, cursorFile,
                   cursorOps, runs, startClock, fresh, initStart, initCursor,
                   reqHist, cursorHist, dlCalls>>

\* offline_mode lines 131-134, then main() returns
OfflineReturn ==
    /\ pc = "off_fetch"
    /\ \E outcome \in Outcomes :
         LET r == DownloadWaveform(FromIso(config.from_time),
                                   FromIso(config.to_time), config.optional_id,
                                   config.station, outFiles, outcome)
             success == r.result = "True"
         IN
         /\ outFiles' = r.files
         /\ trace' = Append(trace, Ev(IF success THEN "ok" ELSE "fail",
                                      FromIso(config.from_time),
                                      FromIso(config.to_time)))
         /\ IF r.result = "raised"
              THEN \* the error leaves offline_mode and main
                   /\ pc' = "crashed"
                   /\ exitStatus' = 1
                   /\ UNCHANGED exitSeen
              ELSE /\ pc' = "exited"
                   /\ exitStatus' = OfflineExitStatus(success)
                   /\ exitSeen' = [exitSeen EXCEPT ![success] = @ \cup {exitStatus'}]
    /\ UNCHANGED <<offline, now, config, start_time, end_time, wakeAt, cursorFile,
                   cursorOps, runs, startClock, fresh, initStart, initCursor,
                   reqHist, cursorHist, dlCalls>>

\* the process is terminated from outside; nothing in memory survives
Kill ==
    /\ UNCHANGED fetchVars
    /\ pc \notin Stopped
    /\ runs < MaxRuns
    /\ pc' = "boot"
    /\ exitStatus' = 137
    /\ start_time' = 0
    /\ end_time' = 0
    /\ wakeAt' = 0
    /\ UNCHANGED <<offline, now, config, cursorFile, cursorOps, hist>>

Next ==
    \/ Tick
    \/ NormalStart
    \/ LoopHead
    \/ DownloadReturn
    \/ SaveOpen
    \/ SaveWrite
    \/ WakeRetry
    \/ WakeDue
    \/ OfflineStart
    \/ OfflineReturn
    \/ Kill

Spec == Init /\ [][Next]_vars

\* ------------------------------------ one uninterrupted run of normal_mode

\* main() is started once, without --offline, and nothing terminates it
LiveStart ==
    /\ runs = 0
    /\ NormalStart

\* a call of download_waveform that returns True
DownloadSucceeds ==
    /\ DownloadReturn
    /\ pc' = "save_open"

LiveNext ==
    \/ Tick
    \/ LiveStart
    \/ LoopHead
    \/ DownloadReturn
    \/ SaveOpen
    \/ SaveWrite
    \/ WakeRetry
    \/ WakeDue

\* the process keeps running its statements, every blocking call returns,
\* the clock keeps advancing, and a window that is requested again and
\* again is downloaded in the end
LiveSpec ==
    /\ Init
    /\ [][LiveNext]_vars
    /\ WF_vars(Tick)
    /\ WF_vars(LiveStart)
    /\ WF_vars(LoopHead)
    /\ WF_vars(DownloadReturn)
    /\ SF_vars(DownloadSucceeds)
    /\ WF_vars(SaveOpen)
    /\ WF_vars(SaveWrite)
    /\ WF_vars(WakeRetry)
    /\ WF_vars(WakeDue)

\* ------------------------------------------- download_waveform on its own

\* arguments explored: two window starts, two window lengths, with and
\* without optional_id, an optional_id that equals a station name
FetchStarts == {BootTime - 120, BootTime - 60}
FetchLengths == {60, 120}
FetchIds == {NoId, "RUN"}
FetchStations == {"STA", "RUN"}

FetchInit ==
    /\ Init
    /\ config.wait = 1
    /\ cursorFile = Absent

\* lines 17-49: one call of download_waveform, with any arguments, in the
\* directory the calls before it have left
FetchCall ==
    /\ Len(dlCalls) < MaxCalls
    /\ \E s \in FetchStarts, len \in FetchLengths, id \in FetchIds,
          sta \in FetchStations, outcome \in Outcomes :
         LET e == s + len
             r == DownloadWaveform(s, e, id, sta, outFiles, outcome)
             path == Filename(id, sta, s, e)
         IN  /\ outFiles' = r.files
             /\ dlCalls' = Append(dlCalls,
                   [s |-> s, e |-> e, id |-> id, station |-> sta,
                    outcome |-> outcome, result |-> r.result, name |-> r.name,
                    before |-> ReadFile(outFiles, path),
                    after |-> ReadFile(r.files, path)])
    /\ UNCHANGED <<prog, now, config, cursorFile, hist>>

FetchNext == FetchCall

FetchSpec == FetchInit /\ [][FetchNext]_vars

\* ---------------------------------------------------------------- claims

Events(kind) == SelectSeq(trace, LAMBDA x : x.ev = kind)
Normal == runs > 0 /\ ~offline
Running == pc \notin Stopped

\* C1: within one run of normal_mode the committed windows form a chain: the
\* first starts at the initial start_time, each next one starts exactly at
\* the end of the one before, every one is non-empty, and the loop goes on
\* from the end of the last one.
C1_CommittedChain ==
    Normal =>
        LET c == Events("commit") IN
        /\ \A i \in 1..Len(c) :
              /\ c[i].a = (IF i = 1 THEN initStart ELSE c[i - 1].b)
              /\ c[i].a < c[i].b
        /\ (Running /\ c # <<>>) => start_time = c[Len(c)].b

C1_Witness ==
    /\ Normal
    /\ Len(Events("commit")) >= 2
    /\ Len(Events("fail")) >= 1

\* C2: as long as no download of the run has succeeded, the cursor file and
\* start_time are what they were when the loop was entered, however many
\* iterations have failed.
C2_FailureKeepsCursor ==
    (Normal /\ Running /\ Events("ok") = <<>>) =>
        /\ cursorFile = initCursor
        /\ start_time = initStart

C2_Witness ==
    /\ Normal
    /\ Running
    /\ Events("ok") = <<>>
    /\ Len(Events("fail")) >= 2
    /\ pc = "fetch"

\* C3: when the process was terminated from outside and started again, and
\* a cursor was ever committed, the first window requested after the restart
\* starts exactly at the last committed cursor.
C3_ResumeAtCommitted ==
    (Normal /\ runs >= 2 /\ exitStatus = 137 /\ cursorHist # <<>>
       /\ Len(trace) = 1 /\ trace[1].ev = "request") =>
        trace[1].a = cursorHist[Len(cursorHist)]

\* C4: a failure to write the cursor file does not terminate normal_mode: it
\* sleeps the retry delay to retry the window.
C4_WriteFailureRetried ==
    (Normal /\ trace # <<>> /\ trace[Len(trace)].ev = "save_failed") =>
        pc \in {"sleep_retry", "boot"}

\* C5: in offline mode no exit status is produced both by a run whose
\* download failed and by a run whose download succeeded.
C5_ExitStatusDistinguishes ==
    exitSeen[TRUE] \cap exitSeen[FALSE] = {}

\* C6: an offline run requests the configured window and nothing else, makes
\* no second request after the first has returned, whether it succeeded or
\* failed, and neither opens nor changes the cursor file.
C6_OfflineOnce ==
    (runs > 0 /\ offline) =>
        /\ Events("request")
             = <<Ev("request", FromIso(config.from_time), FromIso(config.to_time))>>
        /\ Len(Events("ok")) + Len(Events("fail")) <= 1
        /\ (pc = "exited") <=> (Len(Events("ok")) + Len(Events("fail")) = 1)
        /\ pc \in {"off_fetch", "exited", "boot"}
        /\ cursorOps = 0
        /\ cursorFile = initCursor

C6_Witness ==
    /\ runs > 0
    /\ offline
    /\ pc = "exited"
    /\ Len(Events("fail")) = 1
    /\ Parseable(cursorFile)

\* C7: over all runs, windows are requested in non-decreasing order of their
\* start, and every timestamp written to the cursor file is strictly greater
\* than every timestamp the file held before.
C7_NeverRewinds ==
    /\ \A i \in 2..Len(reqHist) : reqHist[i - 1] <= reqHist[i]
    /\ \A i \in 2..Len(cursorHist) : cursorHist[i - 1] < cursorHist[i]

\* a run restarted on a truncated cursor file has committed a window, after
\* an earlier run had failed a download
C7_Witness ==
    /\ Normal
    /\ runs >= 2
    /\ initCursor = Empty
    /\ Len(cursorHist) >= 2
    /\ Len(Events("commit")) >= 1
    /\ Len(reqHist) >= 3

\* C8: right after a commit, the decision the running loop takes next is the
\* decision a restart at the same clock value would take from the cursor
\* file as it now is.
C8_ResumeSameDecision ==
    (Normal /\ pc = "loop" /\ trace # <<>> /\ trace[Len(trace)].ev = "commit") =>
        Decide(start_time, end_time, config.wait)
          = Decide(ResumeStart(cursorFile, now, config.wait), now, config.wait)

C8_Witness ==
    /\ Normal
    /\ pc = "loop"
    /\ trace # <<>>
    /\ trace[Len(trace)].ev = "commit"
    /\ Len(Events("commit")) >= 2
    /\ now > startClock
    /\ Decide(start_time, end_time, config.wait).ev = "request"

CountBefore(kind, j) ==
    Cardinality({i \in 1..(j - 1) : trace[i].ev = kind})

\* C9: a run resumed from cursor C at clock C + k*D + r, in which no
\* download has failed and the clock has not moved, requests the windows
\* [C + i*D, C + (i+1)*D) for i < k in this order and no other, and every
\* sleep comes after all k of them, with end_time - start_time = r.
C9_CatchUp ==
    (Normal /\ ~fresh /\ now = startClock /\ initStart <= startClock
       /\ Events("fail") = <<>> /\ Events("save_failed") = <<>>) =>
        LET D == config.wait * SecPerMin
            k == (startClock - initStart) \div D
            r == (startClock - initStart) % D
            reqs == Events("request")
        IN  /\ Len(reqs) <= k
            /\ \A i \in 1..Len(reqs) :
                  reqs[i] = Ev("request", initStart + (i - 1) * D, initStart + i * D)
            /\ \A j \in 1..Len(trace) :
                  trace[j].ev \in {"sleep_due", "sleep_retry", "sleep_negative"} =>
                      /\ CountBefore("request", j) = k
                      /\ CountBefore("commit", j) = k
            /\ pc = "sleep_due" =>
                  /\ start_time = initStart + k * D
                  /\ end_time - start_time = r

C9_Witness ==
    /\ Normal
    /\ ~fresh
    /\ now = startClock
    /\ Events("fail") = <<>>
    /\ pc = "sleep_due"
    /\ Len(Events("request")) = 2
    /\ end_time - start_time > 0

\* C10: a run that found the cursor file absent or unparseable at clock T
\* enters the loop with start_time = T - D, does not stop before its first
\* request, requests [T - D, T) first, and its first commit leaves T in
\* the cursor file.
C10_FreshStart ==
    (Normal /\ fresh) =>
        LET T == startClock
            D == config.wait * SecPerMin
            c == Events("commit")
        IN  /\ initStart = T - D
            /\ (pc = "crashed") => Events("request") # <<>>
            /\ trace # <<>> => trace[1] = Ev("request", T - D, T)
            /\ c # <<>> => c[1] = Ev("commit", T - D, T)
            /\ (Len(c) = 1 /\ trace[Len(trace)].ev = "commit") =>
                  /\ Parseable(cursorFile)
                  /\ FromIso(cursorFile.line) = T

C10_Witness ==
    /\ Normal
    /\ fresh
    /\ initCursor = Malformed
    /\ Len(Events("commit")) = 1
    /\ trace[Len(trace)].ev = "commit"

Calls == {dlCalls[i] : i \in 1..Len(dlCalls)}

\* C11: no call of download_waveform lets an error escape: whichever
\* statement fails, the call returns False, and it returns True only when
\* the request and the write completed, the whole block being in the file.
C11_NothingEscapes ==
    \A c \in Calls :
        /\ c.result \in {"True", "False"}
        /\ c.outcome # "ok" => c.result = "False"
        /\ c.result = "True" => (c.outcome = "ok" /\ c.after = Complete(c.s, c.e))

C11_Witness ==
    /\ \E c \in Calls : c.outcome = "write_partial" /\ c.result = "False"
    /\ \E c \in Calls : c.outcome = "name" /\ c.result = "False"

\* C12: when download_waveform returns False, the output path of the window
\* holds the complete file of the window or what it held before the call.
C12_NoPartialOutput ==
    \A c \in Calls :
        c.result = "False" => c.after \in {Complete(c.s, c.e), c.before}

Key(c) == IF c.id = NoId THEN c.station ELSE c.id

\* C13: two calls that agree on optional_id-or-station and on start_time
\* build the same filename, whatever their end_time.
C13_FilenameIgnoresEnd ==
    \A c, d \in Calls :
        (c.name # <<>> /\ d.name # <<>> /\ Key(c) = Key(d) /\ c.s = d.s) =>
            c.name = d.name

C13_Witness ==
    \E c, d \in Calls :
        /\ c.name # <<>>
        /\ d.name # <<>>
        /\ Key(c) = Key(d)
        /\ c.s = d.s
        /\ c.e # d.e
        /\ c.id # d.id

\* C15: while normal_mode sleeps in the not-due branch, the duration it
\* handed to time.sleep is D - (end_time - start_time) seconds.
C15_SleepsRemainder ==
    (Normal /\ pc = "sleep_due") =>
        trace[Len(trace)].a
          = config.wait * SecPerMin - (end_time - start_time)

\* C16: when a not-due sleep returns at the very clock value it was due to
\* return, the loop finds exactly D elapsed, so the window is due.
C16_WakesWhenDue ==
    (Normal /\ pc = "loop" /\ trace # <<>>
       /\ trace[Len(trace)].ev = "sleep_due" /\ now = wakeAt) =>
        end_time - start_time = config.wait * SecPerMin

\* C17: every failed download is followed by exactly one sleep of R minutes
\* and then by a request for the same window, whatever the clock shows.
C17_RetrySameWindow ==
    Normal =>
        \A j \in 1..Len(trace) :
            trace[j].ev = "fail" =>
                /\ j < Len(trace)
                /\ trace[j + 1] = Ev("sleep_retry", config.retry * SecPerMin, 0)
                /\ j + 2 <= Len(trace) =>
                      trace[j + 2] = Ev("request", trace[j].a, trace[j].b)
                /\ (pc = "sleep_retry" /\ j + 1 = Len(trace)) =>
                      wakeAt - config.retry * SecPerMin \in startClock..now

C17_Witness ==
    /\ Normal
    /\ Len(Events("fail")) = 2
    /\ trace[Len(trace)].ev = "request"
    /\ trace[Len(trace) - 2].ev = "fail"
    /\ trace[Len(trace) - 5].ev = "fail"

\* C18: every commit directly follows the successful download of the same
\* window, whose end is its start plus D; the cursor file differs from its
\* content at startup only after a success; and right after a commit the
\* file holds the end of that window, which is start_time.
C18_CursorAfterSuccess ==
    Normal =>
        /\ \A j \in 1..Len(trace) :
              trace[j].ev = "commit" =>
                  /\ j > 1
                  /\ trace[j - 1] = Ev("ok", trace[j].a, trace[j].b)
                  /\ trace[j].b = trace[j].a + config.wait * SecPerMin
        /\ cursorFile # initCursor => Events("ok") # <<>>
        /\ (pc = "loop" /\ trace # <<>> /\ trace[Len(trace)].ev = "commit") =>
              /\ Parseable(cursorFile)
              /\ FromIso(cursorFile.line) = trace[Len(trace)].b
              /\ start_time = FromIso(cursorFile.line)

C18_Witness ==
    /\ Normal
    /\ pc = "loop"
    /\ trace # <<>>
    /\ trace[Len(trace)].ev = "commit"
    /\ now > trace[Len(trace)].b
    /\ Len(Events("fail")) >= 1

\* C19: every window normal_mode requests is exactly D seconds long, D > 0,
\* also when more than D has accumulated.
C19_WindowLength ==
    Normal =>
        \A j \in 1..Len(trace) :
            trace[j].ev = "request" =>
                /\ trace[j].b - trace[j].a = config.wait * SecPerMin
                /\ trace[j].b > trace[j].a

C19_Witness ==
    /\ Normal
    /\ pc = "fetch"
    /\ now = startClock
    /\ now - start_time >= 2 * config.wait * SecPerMin
    /\ trace[Len(trace)].ev = "request"

\* C20: in a run that started fresh or from a cursor not later than the
\* clock, the end of the window being requested is never later than the
\* clock, and no duration handed to time.sleep is negative.
C20_NoFutureNoNegative ==
    (Normal /\ (fresh \/ initStart <= startClock)) =>
        /\ pc = "fetch" => end_time <= now
        /\ \A j \in 1..Len(trace) :
              /\ trace[j].ev # "sleep_negative"
              /\ trace[j].ev \in {"sleep_due", "sleep_retry"} => trace[j].a >= 0

C20_Witness ==
    /\ Normal
    /\ ~fresh
    /\ initStart = startClock
    /\ pc = "fetch"
    /\ Len(Events("sleep_due")) >= 2

\* the last clock value of the model
Horizon == BootTime + MaxTicks * ClockStep

\* the cursor file holds a timestamp later than t
CursorAfter(t) == Parseable(cursorFile) /\ FromIso(cursorFile.line) > t

\* the model cannot continue the run: the event bound is reached, or the
\* pending sleep ends after the last clock value
BoundReached ==
    \/ Len(trace) >= MaxTrace
    \/ (pc \in {"sleep_due", "sleep_retry"} /\ wakeAt > Horizon)

\* C14: in a run that starts with start_time not later than the clock, in
\* which every window is downloaded in the end and the clock keeps
\* advancing, every instant of the first two windows after the initial
\* start_time that end within the clock's range is eventually behind the
\* cursor.
C14_EventuallyCovered ==
    \A k \in {1, 2} :
        [](( /\ Normal
             /\ initStart <= startClock
             /\ initStart + k * config.wait * SecPerMin <= Horizon )
           => <>( \/ CursorAfter(initStart + k * config.wait * SecPerMin - 1)
                  \/ BoundReached ))

====
